---- MODULE Spec2Model ----
(***************************************************************************)
(* Model of assets/generate_og_image.py: the module-level import probe,   *)
(* main(), the matplotlib (raster) composer and the SVG (vector)           *)
(* composer, run as a sequence of processes over one output directory.     *)
(*                                                                         *)
(* Units.  Canvas coordinates are in tenths of a logical unit (5.8 -> 58). *)
(* Opacities are in units of 1e-5 (0.01 -> 1000).  The trajectory samples  *)
(* are exact rationals: years over 49, baseline over 10*49^2, chart_x over *)
(* 10*49, chart_y over 1000*49^2, the band edges over 10000*49^2.          *)
(* The arithmetic is exact; binary floating point rounding is not          *)
(* modelled.  Non-ASCII characters of the literals are written in ASCII.   *)
(***************************************************************************)
EXTENDS Integers, Sequences, FiniteSets, TLC

\* Number of consecutive processes (runs of the script) that are explored.
MaxRuns == 2

(***************************************************************************)
(* Literal data                                                            *)
(***************************************************************************)

COLORS ==
  [primary |-> "#2E86AB", primary_dark |-> "#1a5a7a", accent |-> "#F18F01",
   success |-> "#28A745", warning |-> "#DC3545", dark |-> "#1a1a1a",
   light |-> "#f5f5f5", white |-> "#ffffff"]

\* stats: the (value, label) pairs of the raster composer.
stats ==
  << <<"5.7x", "Mean">>, <<"$47T", "Value">>, <<"91.5%", "AI Sensitivity">> >>

NoticeNoMatplotlib == "matplotlib not available, generating SVG fallback"
MsgStart == "Generating Open Graph image (1200x630)..."
MsgPng == "Generated: og-image.png"
MsgSvg == "Generated: og-image.svg"
MsgDone == "Done! Use og-image.png for social sharing."
MsgMeta == "Update <meta property='og:image'> in index.html to point to the hosted URL."

El(tag, x, y, s) == [tag |-> tag, x |-> x, y |-> y, s |-> s]

\* svg_content: the markup literal, one entry per element, in document
\* order.  x and y are the element's first two numeric attributes (width and
\* height for svg and the background rect, cx and cy for a circle, the
\* translation for g, the start point for a path).
svg_content ==
  << El("?xml", 1, 0, "UTF-8"),
     El("svg", 1200, 630, "http://www.w3.org/2000/svg"),
     El("linearGradient", 0, 0, "bg-gradient"),
     El("linearGradient", 0, 0, "accent-gradient"),
     El("rect", 1200, 630, "url(#bg-gradient)"),
     El("circle", 1100, 100, "#2E86AB"),
     El("circle", 100, 530, "#F18F01"),
     El("text", 60, 120, "AI-Accelerated Biological Discovery"),
     El("text", 60, 170, "A Quantitative Model"),
     El("rect", 60, 220, "url(#accent-gradient)"),
     El("text", 260, 310, "3.4x - 9.2x"),
     El("text", 260, 360, "Acceleration by 2050"),
     El("text", 260, 395, "80% Confidence Interval"),
     El("g", 520, 280, ""),
     El("text", 0, 0, "5.7x"),
     El("text", 0, 40, "Mean"),
     El("/g", 0, 0, ""),
     El("g", 700, 280, ""),
     El("text", 0, 0, "$47T"),
     El("text", 0, 40, "Value"),
     El("/g", 0, 0, ""),
     El("g", 880, 280, ""),
     El("text", 0, 0, "91.5%"),
     El("text", 0, 40, "AI Sensitivity"),
     El("/g", 0, 0, ""),
     El("path", 60, 550, "stroke"),
     El("path", 60, 550, "fill"),
     El("text", 60, 590, "Monte Carlo simulation * Sobol sensitivity analysis * Policy ROI rankings"),
     El("text", 1140, 600, "ai-bio-acceleration.github.io"),
     El("/svg", 0, 0, "") >>

(***************************************************************************)
(* The file system: the two destination paths under OUTPUT_DIR             *)
(***************************************************************************)

File(exists, data) == [exists |-> exists, data |-> data]
NoFile == File(FALSE, <<>>)

\* What og-image.svg may hold before the first run: nothing, some other
\* document, an earlier complete output, or an earlier truncated output.
OldSvg == << El("svg", 800, 400, "old"), El("/svg", 0, 0, "") >>
PriorSvgFiles ==
  { NoFile, File(TRUE, OldSvg), File(TRUE, svg_content),
    File(TRUE, SubSeq(svg_content, 1, 2)) }

\* og-image.png is encoded and written by the library, not by this source:
\* only what the path holds is tracked.
PriorPngFiles == { "absent", "old" }

(***************************************************************************)
(* Pure computations of the raster composer                                *)
(***************************************************************************)

Text(x, y, s, size, color) ==
  [x |-> x, y |-> y, s |-> s, size |-> size, color |-> color]

\* range(20)
VignetteLayers == 20

\* alpha = 0.02 * (20 - i) / 20, in units of 1e-5
VignetteAlphaOffByOne(i) == (2000 * (19 - i)) \div 20
VignetteAlpha(i) == (2000 * (20 - i)) \div 20

\* Rectangle(..., alpha=alpha * 0.5)
RectAlpha(i) == (VignetteAlpha(i) * 5) \div 10

Patch(kind, x, y, w, h, color, alpha) ==
  [kind |-> kind, x |-> x, y |-> y, w |-> w, h |-> h, color |-> color,
   alpha |-> alpha]

\* the patches added by the loop, i = 0..19 at index i+1:
\* Rectangle((0, 0), 12, 6.3, facecolor=COLORS['primary'], alpha=alpha * 0.5)
Vignette ==
  [n \in 1..VignetteLayers |->
     Patch("Rectangle", 0, 0, 120, 63, COLORS.primary, RectAlpha(n - 1))]

\* FancyBboxPatch((0.5, 2.2), 4.5, 2.2, ..., alpha=0.9)
StatBox == Patch("FancyBboxPatch", 5, 22, 45, 22, COLORS.primary, 90000)

\* x = 5.8 + i * 2
StatXReversed(i) == 58 - i * 20
StatX(i) == 58 + i * 20

\* for i, (value, label) in enumerate(stats): the two ax.text calls
StatTexts(i) ==
  << Text(StatX(i), 36, stats[i + 1][1], 24, COLORS.accent),
     Text(StatX(i), 29, stats[i + 1][2], 11, COLORS.light) >>

RECURSIVE SecondaryStats(_)
SecondaryStats(n) ==
  IF n = 0 THEN <<>> ELSE SecondaryStats(n - 1) \o StatTexts(n - 1)

HeaderTexts ==
  << Text(5, 55, "AI-Accelerated Biological Discovery", 32, COLORS.white),
     Text(5, 48, "A Quantitative Model", 18, COLORS.primary),
     Text(27, 39, "3.4x - 9.2x", 36, COLORS.white),
     Text(27, 30, "Acceleration by 2050", 14, COLORS.white),
     Text(27, 25, "80% Confidence Interval", 11, COLORS.white) >>

FooterTexts ==
  << Text(5, 12, "Monte Carlo simulation * Sobol sensitivity analysis * Policy ROI rankings",
          12, COLORS.light),
     Text(115, 4, "ai-bio-acceleration.github.io", 10, COLORS.primary) >>

\* np.linspace(0, 5, 50)
NumSamples == 50
YearsDen == NumSamples - 1
YearsNum(k) == k * (5 - 0)

\* baseline = 1 + years * 0.8 + 0.1 * years**2, over 10 * YearsDen^2
BaselineConcave(k) ==
  10 * YearsDen * YearsDen + 8 * YearsNum(k) * YearsDen - YearsNum(k) * YearsNum(k)
Baseline(k) ==
  10 * YearsDen * YearsDen + 8 * YearsNum(k) * YearsDen + YearsNum(k) * YearsNum(k)

\* chart_x = years * 0.4 + 0.5, over 10 * YearsDen
ChartX(k) == 4 * YearsNum(k) + 5 * YearsDen

\* chart_y = baseline * 0.15 + 0.3, over 1000 * YearsDen^2
ChartY(k) == 15 * Baseline(k) + 300 * YearsDen * YearsDen

\* ax.plot(chart_x, chart_y): sample k at index k+1; y over 10000 * YearsDen^2
Curve == [n \in 1..NumSamples |-> [x |-> ChartX(n - 1), y |-> 10 * ChartY(n - 1)]]

\* ax.fill_between(chart_x, chart_y * 0.7, chart_y * 1.3)
Band ==
  [n \in 1..NumSamples |->
     [x |-> ChartX(n - 1), lo |-> 7 * ChartY(n - 1), hi |-> 13 * ChartY(n - 1)]]

EmptyCanvas == [patches |-> <<>>, texts |-> <<>>, band |-> <<>>, curve |-> <<>>]

(***************************************************************************)
(* State                                                                   *)
(***************************************************************************)

VARIABLES
  pc,             \* position of the running process in the script
  run,            \* number of the running process, 1..MaxRuns
  HAS_MATPLOTLIB, \* the module-level flag set by the import probe
  stdout,         \* what the running process has printed
  fig,            \* the pyplot figure: "none", "open" or "closed"
  figsOpened,     \* how many figures the process has created
  canvas,         \* what has been drawn on the axes
  svgHandle,      \* the file object f: "none", "open" or "closed"
  handlesOpened,  \* how many times the process has opened og-image.svg
  pngFile,        \* what og-image.png holds
  svgFile,        \* what og-image.svg holds
  rasterCalls,    \* calls of generate_og_image_matplotlib by the process
  svgCalls,       \* calls of generate_og_image_svg by the process
  written,        \* the artifacts the process has written completely
  ioError,        \* the I/O error the process died of, "none" if none
  exitCode,       \* -1 while running, then the process's exit status
  pngPrev,        \* history: og-image.png when the process started
  svgPrev,        \* history: og-image.svg when the process started
  svgFirst,       \* history: og-image.svg after the first successful run
  okRuns          \* history: how many runs have ended with exit status 0

vars ==
  << pc, run, HAS_MATPLOTLIB, stdout, fig, figsOpened, canvas, svgHandle,
     handlesOpened, pngFile, svgFile, rasterCalls, svgCalls, written, ioError,
     exitCode, pngPrev, svgPrev, svgFirst, okRuns >>

fileVars == << pngFile, svgFile, pngPrev, svgPrev, svgFirst, okRuns >>

Init ==
  /\ pc = "import"
  /\ run = 1
  /\ HAS_MATPLOTLIB = FALSE
  /\ stdout = <<>>
  /\ fig = "none"
  /\ figsOpened = 0
  /\ canvas = EmptyCanvas
  /\ svgHandle = "none"
  /\ handlesOpened = 0
  /\ pngFile \in PriorPngFiles
  /\ svgFile \in PriorSvgFiles
  /\ rasterCalls = 0
  /\ svgCalls = 0
  /\ written = {}
  /\ ioError = "none"
  /\ exitCode = -1
  /\ pngPrev = pngFile
  /\ svgPrev = svgFile
  /\ svgFirst = [set |-> FALSE, file |-> NoFile]
  /\ okRuns = 0

(***************************************************************************)
(* Module level: the import probe                                          *)
(***************************************************************************)

\* except ImportError: HAS_MATPLOTLIB = False; print(...)
ImportNotice(has) == IF has THEN <<>> ELSE << NoticeNoMatplotlib >>

\* try: import matplotlib... ; whether the import succeeds is the
\* environment's choice.
Import ==
  /\ pc = "import"
  /\ \E has \in BOOLEAN :
       /\ HAS_MATPLOTLIB' = has
       /\ stdout' = stdout \o ImportNotice(has)
  /\ pc' = "main"
  /\ UNCHANGED << run, fig, figsOpened, canvas, svgHandle, handlesOpened,
                  rasterCalls, svgCalls, written, ioError, exitCode >>
  /\ UNCHANGED fileVars

(***************************************************************************)
(* main()                                                                  *)
(***************************************************************************)

\* if HAS_MATPLOTLIB: generate_og_image_matplotlib()
RasterBranchAlways(has) == "m_subplots"
RasterBranch(has) == IF has THEN "m_subplots" ELSE "svg_build"

\* where main() continues when generate_og_image_matplotlib() returns:
\* the unconditional generate_og_image_svg() call
AfterRasterElse == "main_done"
AfterRaster == "svg_build"

MainStart ==
  /\ pc = "main"
  /\ stdout' = Append(stdout, MsgStart)
  /\ pc' = RasterBranch(HAS_MATPLOTLIB)
  /\ rasterCalls' = IF pc' = "m_subplots" THEN rasterCalls + 1 ELSE rasterCalls
  /\ svgCalls' = IF pc' = "svg_build" THEN svgCalls + 1 ELSE svgCalls
  /\ UNCHANGED << run, HAS_MATPLOTLIB, fig, figsOpened, canvas, svgHandle,
                  handlesOpened, written, ioError, exitCode >>
  /\ UNCHANGED fileVars

\* the two closing print calls; the process then exits 0
MainDone ==
  /\ pc = "main_done"
  /\ stdout' = stdout \o << MsgDone, MsgMeta >>
  /\ exitCode' = 0
  /\ svgFirst' = IF svgFirst.set THEN svgFirst ELSE [set |-> TRUE, file |-> svgFile]
  /\ okRuns' = okRuns + 1
  /\ pc' = "done"
  /\ UNCHANGED << run, HAS_MATPLOTLIB, fig, figsOpened, canvas, svgHandle,
                  handlesOpened, rasterCalls, svgCalls, written, ioError >>
  /\ UNCHANGED << pngFile, svgFile, pngPrev, svgPrev >>

\* An exception nobody catches: the interpreter prints the traceback and
\* exits 1.
Raise(err) ==
  /\ pc' = "failed"
  /\ ioError' = err
  /\ exitCode' = 1

(***************************************************************************)
(* generate_og_image_matplotlib()                                          *)
(***************************************************************************)

rasterFrame ==
  << run, HAS_MATPLOTLIB, stdout, svgHandle, handlesOpened, rasterCalls,
     svgCalls, written, ioError, exitCode >>

\* fig, ax = plt.subplots(...); face colours, limits, axis('off')
Subplots ==
  /\ pc = "m_subplots"
  /\ fig' = "open"
  /\ figsOpened' = figsOpened + 1
  /\ canvas' = EmptyCanvas
  /\ pc' = "m_vignette"
  /\ UNCHANGED rasterFrame
  /\ UNCHANGED fileVars

\* for i in range(20): ... ax.add_patch(rect)
PaintVignette ==
  /\ pc = "m_vignette"
  /\ canvas' = [canvas EXCEPT !.patches = @ \o Vignette]
  /\ pc' = "m_header"
  /\ UNCHANGED << fig, figsOpened >>
  /\ UNCHANGED rasterFrame
  /\ UNCHANGED fileVars

\* title, subtitle, the key stat box and its three lines
DrawHeader ==
  /\ pc = "m_header"
  /\ canvas' = [canvas EXCEPT !.texts = @ \o HeaderTexts,
                              !.patches = Append(@, StatBox)]
  /\ pc' = "m_stats"
  /\ UNCHANGED << fig, figsOpened >>
  /\ UNCHANGED rasterFrame
  /\ UNCHANGED fileVars

\* for i, (value, label) in enumerate(stats): ...
DrawStats ==
  /\ pc = "m_stats"
  /\ canvas' = [canvas EXCEPT !.texts = @ \o SecondaryStats(Len(stats))]
  /\ pc' = "m_footer"
  /\ UNCHANGED << fig, figsOpened >>
  /\ UNCHANGED rasterFrame
  /\ UNCHANGED fileVars

\* bottom tagline and URL
DrawFooter ==
  /\ pc = "m_footer"
  /\ canvas' = [canvas EXCEPT !.texts = @ \o FooterTexts]
  /\ pc' = "m_chart"
  /\ UNCHANGED << fig, figsOpened >>
  /\ UNCHANGED rasterFrame
  /\ UNCHANGED fileVars

\* the mini trajectory chart and plt.tight_layout(pad=0)
DrawChart ==
  /\ pc = "m_chart"
  /\ canvas' = [canvas EXCEPT !.band = Band, !.curve = Curve]
  /\ pc' = "m_savefig"
  /\ UNCHANGED << fig, figsOpened >>
  /\ UNCHANGED rasterFrame
  /\ UNCHANGED fileVars

\* What og-image.png may hold when fig.savefig raises an I/O error: the
\* library writes to the destination path itself, so the path holds what it
\* held (the open failed) or an incomplete image.
SavefigFailureOutcomes(f) == { f, "partial" }

\* fig.savefig(OUTPUT_DIR / 'og-image.png', ...)
Savefig ==
  /\ pc = "m_savefig"
  /\ \/ /\ pngFile' = "new"
        /\ written' = written \cup {"png"}
        /\ pc' = "m_close"
        /\ UNCHANGED << ioError, exitCode >>
     \/ /\ pngFile' \in SavefigFailureOutcomes(pngFile)
        /\ Raise("png")
        /\ UNCHANGED written
  /\ UNCHANGED << run, HAS_MATPLOTLIB, stdout, fig, figsOpened, canvas,
                  svgHandle, handlesOpened, rasterCalls, svgCalls >>
  /\ UNCHANGED << svgFile, pngPrev, svgPrev, svgFirst, okRuns >>

\* plt.close()
Close ==
  /\ pc = "m_close"
  /\ fig' = "closed"
  /\ pc' = "m_print"
  /\ UNCHANGED << figsOpened, canvas >>
  /\ UNCHANGED rasterFrame
  /\ UNCHANGED fileVars

\* print(f"Generated: ..."), then the return to main()
PrintPng ==
  /\ pc = "m_print"
  /\ stdout' = Append(stdout, MsgPng)
  /\ pc' = AfterRaster
  /\ svgCalls' = IF pc' = "svg_build" THEN svgCalls + 1 ELSE svgCalls
  /\ UNCHANGED << run, HAS_MATPLOTLIB, fig, figsOpened, canvas, svgHandle,
                  handlesOpened, rasterCalls, written, ioError, exitCode >>
  /\ UNCHANGED fileVars

(***************************************************************************)
(* generate_og_image_svg()                                                 *)
(***************************************************************************)

svgFrame ==
  << run, HAS_MATPLOTLIB, stdout, fig, figsOpened, canvas, rasterCalls,
     svgCalls >>

\* open(path, 'w'): creates the file or truncates it to length zero
OpenAppend(file) == File(TRUE, file.data)
OpenW(file) == File(TRUE, <<>>)

\* f.write(chunk): the data goes where the file position is, the end
WriteData(file, chunk) == [file EXCEPT !.data = @ \o chunk]

\* the svg_content literal, then: with open(OUTPUT_DIR / 'og-image.svg', 'w') as f
SvgOpen ==
  /\ pc = "svg_build"
  /\ \/ /\ svgFile' = OpenW(svgFile)
        /\ svgHandle' = "open"
        /\ handlesOpened' = handlesOpened + 1
        /\ pc' = "svg_write"
        /\ UNCHANGED << ioError, exitCode >>
     \/ /\ Raise("svg_open")
        /\ UNCHANGED << svgFile, svgHandle, handlesOpened >>
  /\ UNCHANGED written
  /\ UNCHANGED svgFrame
  /\ UNCHANGED << pngFile, pngPrev, svgPrev, svgFirst, okRuns >>

\* f.write(svg_content), with the flush of the buffer: all of it reaches
\* the file, or an I/O error leaves the first k elements there.
SvgWrite ==
  /\ pc = "svg_write"
  /\ \/ /\ svgFile' = WriteData(svgFile, svg_content)
        /\ pc' = "svg_exit"
     \/ /\ \E k \in 0..(Len(svg_content) - 1) :
             svgFile' = WriteData(svgFile, SubSeq(svg_content, 1, k))
        /\ pc' = "svg_exit_exc"
  /\ UNCHANGED << svgHandle, handlesOpened, written, ioError, exitCode >>
  /\ UNCHANGED svgFrame
  /\ UNCHANGED << pngFile, pngPrev, svgPrev, svgFirst, okRuns >>

\* the end of the with block: f is closed
SvgExit ==
  /\ pc = "svg_exit"
  /\ svgHandle' = "closed"
  /\ written' = written \cup {"svg"}
  /\ pc' = "svg_print"
  /\ UNCHANGED << handlesOpened, ioError, exitCode >>
  /\ UNCHANGED svgFrame
  /\ UNCHANGED fileVars

\* the with block left by the exception: f is closed, the error goes on
SvgExitExc ==
  /\ pc = "svg_exit_exc"
  /\ svgHandle' = "closed"
  /\ Raise("svg_write")
  /\ UNCHANGED << handlesOpened, written >>
  /\ UNCHANGED svgFrame
  /\ UNCHANGED fileVars

\* print(f"Generated: ..."), then the return to main()
SvgPrint ==
  /\ pc = "svg_print"
  /\ stdout' = Append(stdout, MsgSvg)
  /\ pc' = "main_done"
  /\ UNCHANGED << run, HAS_MATPLOTLIB, fig, figsOpened, canvas, svgHandle,
                  handlesOpened, rasterCalls, svgCalls, written, ioError,
                  exitCode >>
  /\ UNCHANGED fileVars

(***************************************************************************)
(* The tool is run again: a new process over the same directory            *)
(***************************************************************************)

Terminated == pc \in {"done", "failed"}

Rerun ==
  /\ Terminated
  /\ run < MaxRuns
  /\ run' = run + 1
  /\ pc' = "import"
  /\ HAS_MATPLOTLIB' = FALSE
  /\ stdout' = <<>>
  /\ fig' = "none"
  /\ figsOpened' = 0
  /\ canvas' = EmptyCanvas
  /\ svgHandle' = "none"
  /\ handlesOpened' = 0
  /\ rasterCalls' = 0
  /\ svgCalls' = 0
  /\ written' = {}
  /\ ioError' = "none"
  /\ exitCode' = -1
  /\ pngPrev' = pngFile
  /\ svgPrev' = svgFile
  /\ UNCHANGED << pngFile, svgFile, svgFirst, okRuns >>

Next ==
  \/ Import
  \/ MainStart
  \/ Subplots
  \/ PaintVignette
  \/ DrawHeader
  \/ DrawStats
  \/ DrawFooter
  \/ DrawChart
  \/ Savefig
  \/ Close
  \/ PrintPng
  \/ SvgOpen
  \/ SvgWrite
  \/ SvgExit
  \/ SvgExitExc
  \/ SvgPrint
  \/ MainDone
  \/ Rerun

Spec == Init /\ [][Next]_vars

(***************************************************************************)
(* Positions                                                               *)
(***************************************************************************)

RasterPositions ==
  {"m_subplots", "m_vignette", "m_header", "m_stats", "m_footer", "m_chart",
   "m_savefig", "m_close", "m_print"}

SvgPositions == {"svg_build", "svg_write", "svg_exit", "svg_exit_exc", "svg_print"}

\* the raster composer was called and has returned or raised
RasterLeft == rasterCalls = 1 /\ pc \notin RasterPositions

\* the vector composer was called and has returned or raised
SvgLeft == svgCalls = 1 /\ pc \notin SvgPositions

\* the raster composer is past its vignette loop, its stats loop, its chart
VignettePainted == rasterCalls = 1 /\ pc \notin {"m_subplots", "m_vignette"}
StatsDrawn ==
  rasterCalls = 1 /\ pc \notin {"m_subplots", "m_vignette", "m_header", "m_stats"}
ChartDrawn ==
  rasterCalls = 1 /\
  pc \notin {"m_subplots", "m_vignette", "m_header", "m_stats", "m_footer", "m_chart"}

IsPrefix(p, s) == Len(p) <= Len(s) /\ SubSeq(s, 1, Len(p)) = p

(***************************************************************************)
(* Properties                                                              *)
(***************************************************************************)

\* C1: with the backend available or not, a run in which no write fails ends
\* with og-image.svg written completely; generate_og_image_svg is called
\* exactly once in such a run, and only after the raster branch is over (the
\* raster composer has returned, or was skipped because the backend is
\* missing).  A run ends otherwise only when a write has failed.
C1_VectorAlwaysWritten ==
  /\ pc = "done" =>
       /\ svgCalls = 1
       /\ "svg" \in written
       /\ svgFile = File(TRUE, svg_content)
       /\ exitCode = 0
  /\ pc = "failed" => ioError # "none"
  /\ svgCalls > 0 =>
       /\ svgCalls = 1
       /\ rasterCalls = (IF HAS_MATPLOTLIB THEN 1 ELSE 0)
       /\ HAS_MATPLOTLIB => (RasterLeft /\ "png" \in written /\ ioError # "png")

\* a second run without the backend, after a run with it, has ended well
C1_Witness ==
  /\ pc = "done"
  /\ run = 2
  /\ ~HAS_MATPLOTLIB
  /\ pngFile = "new"
  /\ svgFile = File(TRUE, svg_content)

\* C2: when the import has failed (HAS_MATPLOTLIB is false) the notice has
\* been printed, generate_og_image_matplotlib is never called, og-image.png is
\* left as it was, a completed run has written exactly the vector file and
\* exits 0, and the only way the run fails is an I/O error of the vector
\* file itself.
C2_RasterUnavailable ==
  (pc # "import" /\ ~HAS_MATPLOTLIB) =>
    /\ Len(stdout) >= 1 /\ stdout[1] = NoticeNoMatplotlib
    /\ rasterCalls = 0
    /\ fig = "none"
    /\ pngFile = pngPrev
    /\ pc = "done" => (written = {"svg"} /\ exitCode = 0)
    /\ pc = "failed" => ioError \in {"svg_open", "svg_write"}

C2_Witness ==
  /\ pc = "done"
  /\ ~HAS_MATPLOTLIB
  /\ written = {"svg"}
  /\ exitCode = 0
  /\ pngFile = "absent"

\* C3 (as claimed): in every run that has ended, whether the raster composer
\* was skipped, returned or raised, generate_og_image_svg was executed.
C3_VectorIndependentOfRaster == Terminated => svgCalls = 1

\* The secondary statistics as the claim C4 lists them: raster x (tenths),
\* vector translate x, value, label.
ExpectedStat(i) ==
  CASE i = 0 -> [rx |-> 58, vx |-> 520, value |-> "5.7x", label |-> "Mean"]
    [] i = 1 -> [rx |-> 78, vx |-> 700, value |-> "$47T", label |-> "Value"]
    [] i = 2 -> [rx |-> 98, vx |-> 880, value |-> "91.5%", label |-> "AI Sensitivity"]

IsStatValue(t) == t.size = 24 /\ t.color = COLORS.accent
IsStatLabel(t) == t.size = 11 /\ t.color = COLORS.light
IsGroup(e) == e.tag = "g"

\* the indices of the g elements of a document, in document order
GroupIndices(d) == SelectSeq([i \in 1..Len(d) |-> i], LAMBDA i : IsGroup(d[i]))

RasterStatsAsClaimed ==
  LET vals == SelectSeq(canvas.texts, IsStatValue)
      labs == SelectSeq(canvas.texts, IsStatLabel)
  IN  /\ Len(vals) = 3
      /\ Len(labs) = 3
      /\ \A i \in 0..2 :
           /\ vals[i + 1].x = ExpectedStat(i).rx
           /\ vals[i + 1].x = 58 + 20 * i
           /\ vals[i + 1].s = ExpectedStat(i).value
           /\ labs[i + 1].s = ExpectedStat(i).label
           /\ labs[i + 1].x = vals[i + 1].x
           /\ vals[i + 1].y > labs[i + 1].y
      /\ \A i \in 1..2 : vals[i].x < vals[i + 1].x

VectorStatsAsClaimed ==
  LET d == svgFile.data
      g == GroupIndices(d)
  IN  /\ Len(g) = 3
      /\ \A i \in 0..2 :
           LET at == g[i + 1] IN
           /\ at + 3 <= Len(d)
           /\ d[at].x = ExpectedStat(i).vx
           /\ d[at + 1].tag = "text" /\ d[at + 1].s = ExpectedStat(i).value
           /\ d[at + 2].tag = "text" /\ d[at + 2].s = ExpectedStat(i).label
           /\ d[at + 1].x = d[at + 2].x
           /\ d[at + 3].tag = "/g"
      /\ \A i \in 1..2 : d[g[i]].x < d[g[i + 1]].x

\* C4: once the raster composer has drawn the secondary statistics, and once
\* the vector file is written, each holds exactly three groups, in the order
\* Mean, Value, AI Sensitivity, at strictly increasing x (raster 5.8 + 2i,
\* vector 520, 700, 880), each label with its own value string and at the
\* same x as its value.
C4_StatsOrderAndPairing ==
  /\ StatsDrawn => RasterStatsAsClaimed
  /\ "svg" \in written => VectorStatsAsClaimed

C4_Witness ==
  /\ pc = "done"
  /\ written = {"png", "svg"}
  /\ Len(SelectSeq(canvas.texts, IsStatValue)) = 3
  /\ Len(GroupIndices(svgFile.data)) = 3

\* C5: whenever a run has ended well, whatever og-image.svg held before,
\* whichever way the backend probe went and however many runs came before,
\* og-image.svg holds what it held after the first run that ended well, and
\* that is svg_content once, not appended to what was there.
C5_VectorIdempotent ==
  pc = "done" =>
    /\ svgFirst.set
    /\ svgFile = svgFirst.file
    /\ svgFile = File(TRUE, svg_content)

\* the second of two runs that both ended well
C5_Witness ==
  /\ pc = "done"
  /\ okRuns = 2
  /\ svgPrev = File(TRUE, svg_content)
  /\ svgFile = svgFirst.file

\* C7 (as claimed): after an I/O failure each destination holds its previous
\* content or the complete new content.
C7_AtomicWrite ==
  pc = "failed" =>
    /\ svgFile \in {svgPrev, File(TRUE, svg_content)}
    /\ pngFile \in {pngPrev, "new"}

\* C7 (amended): the vector file is written from the complete in-memory
\* svg_content, but not atomically: while it is written and after an I/O
\* failure, og-image.svg holds its previous content (the open failed) or a
\* proper prefix of svg_content, possibly empty, the previous content being
\* lost; it never holds a mixture of old and new content.
C7_WrittenFromMemoryNotAtomic ==
  /\ ioError = "svg_open" => svgFile = svgPrev
  /\ ioError = "svg_write" =>
       /\ svgFile.exists
       /\ IsPrefix(svgFile.data, svg_content)
       /\ svgFile.data # svg_content
  /\ pc \in {"svg_write", "svg_exit", "svg_exit_exc"} =>
       /\ svgFile.exists
       /\ IsPrefix(svgFile.data, svg_content)

\* a write that failed half way over an older document
C7_Witness ==
  /\ pc = "failed"
  /\ ioError = "svg_write"
  /\ svgPrev = File(TRUE, OldSvg)
  /\ Len(svgFile.data) = 14

VignetteRects == SelectSeq(canvas.patches, LAMBDA p : p.kind = "Rectangle")

VignetteShape ==
  LET v == VignetteRects IN
  /\ Len(v) = 20
  /\ \A n \in 1..20 :
       /\ v[n].x = 0 /\ v[n].y = 0 /\ v[n].w = 120 /\ v[n].h = 63
       /\ v[n].color = COLORS.primary
  /\ \A n \in 1..19 : v[n].alpha > v[n + 1].alpha
  /\ \A n \in 1..18 : v[n].alpha - v[n + 1].alpha = v[n + 1].alpha - v[n + 2].alpha
  /\ v[1].alpha = 1000

\* C8 (as claimed): the vignette is 20 full-canvas rectangles of the primary
\* colour whose opacity falls linearly from 0.01 to zero at the last layer.
C8_VignetteFallsToZero ==
  VignettePainted => (VignetteShape /\ VignetteRects[20].alpha = 0)

\* C8 (amended): the vignette is 20 full-canvas rectangles of the primary
\* colour, added in order, whose opacity is strictly decreasing with a
\* constant step of 0.0005, from 0.01 at i = 0 down to 0.0005 at i = 19: the
\* last layer is one step above zero, not zero.
C8_VignetteLinearFalloff ==
  VignettePainted =>
    /\ VignetteShape
    /\ VignetteRects[20].alpha = 50
    /\ VignetteRects[19].alpha - VignetteRects[20].alpha = VignetteRects[20].alpha

C8_Witness ==
  /\ pc = "m_header"
  /\ Len(canvas.patches) = 20
  /\ canvas.patches[20].alpha = 50

\* y of the claim C9 at sample k, 0.15 * (1 + 0.8 t + 0.1 t^2) + 0.3 with
\* t = 5k/49, over 10000 * 49^2; x of the chart, 0.4 t + 0.5, over 10 * 49
ClaimedY(k) == 10804500 + 294000 * k + 3750 * k * k
ClaimedX(k) == 20 * k + 245

\* C9: the drawn curve has exactly 50 samples, sample k at t_k = 5k/49, with
\* x strictly increasing, y as the claim's formula gives it, strictly
\* increasing and convex (second differences not negative), and at every
\* sample strictly between the 0.7 and 1.3 band edges drawn at the same x.
C9_TrendCurve ==
  ChartDrawn =>
    LET c == canvas.curve
        b == canvas.band
    IN  /\ Len(c) = 50
        /\ Len(b) = 50
        /\ \A n \in 1..50 :
             /\ c[n].x = ClaimedX(n - 1)
             /\ c[n].y = ClaimedY(n - 1)
             /\ b[n].x = c[n].x
             /\ 10 * b[n].lo = 7 * c[n].y
             /\ 10 * b[n].hi = 13 * c[n].y
             /\ b[n].lo < c[n].y
             /\ c[n].y < b[n].hi
        /\ \A n \in 1..49 : c[n].x < c[n + 1].x /\ c[n].y < c[n + 1].y
        /\ \A n \in 1..48 : c[n + 2].y - c[n + 1].y >= c[n + 1].y - c[n].y

C9_Witness ==
  /\ pc = "m_savefig"
  /\ Len(canvas.curve) = 50
  /\ canvas.curve[50].x = 1225

\* C10 (as claimed): the figure and the file object are each acquired at
\* most once per run, and neither is open once its composer has returned or
\* raised.
C10_ResourcesReleased ==
  /\ figsOpened <= 1
  /\ handlesOpened <= 1
  /\ RasterLeft => fig # "open"
  /\ SvgLeft => svgHandle # "open"

====
